---- MODULE Spec2Model ----
(***************************************************************************)
(* A model of devicetree-parse: the bounds-checked recursive walker over   *)
(* the binary device tree (devicetree-parse.c), and the value classifier   *)
(* and formatter of the command-line tool (main.c).                        *)
(*                                                                         *)
(* Memory is a sequence of bytes (0..255); a pointer is a 0-based offset   *)
(* into it, so the byte at offset o of buf is buf[o + 1].  Text is a       *)
(* sequence of character codes.                                            *)
(***************************************************************************)
EXTENDS Integers, Sequences, FiniteSets, TLC

VARIABLES
    tree,       \* the abstract tree the input buffer encodes
    buf,        \* the input buffer (the mapped file), a sequence of bytes
    pc,         \* "idle" before the call, then the name of the call made
    arg,        \* the arguments of the call made
    res,        \* what the call returned and what its observers saw
    todo,       \* the properties a traversal is still to hand to property_cb
    sink,       \* the strbuf of devicetree_print
    last        \* the property property_cb printed last, and how

fmtVars == <<todo, sink, last>>
vars == <<tree, buf, pc, arg, res, todo, sink, last>>

----------------------------------------------------------------------------
(* Bounds of the model *)

\* the largest number of nodes of an input tree
MaxNodes == 3
\* the largest number of properties of one node
MaxProps == 2
\* the largest number of bytes cut off the end of a buffer that is printed
MaxCut == 2
\* the largest length of the property values drawn byte by byte
MaxShort == 4
\* the largest number of records of the range tables drawn
MaxRanges == 2

----------------------------------------------------------------------------
(* Bytes and little-endian fields *)

Rep(b, n) == [i \in 1..n |-> b]

Range(s) == { s[i] : i \in DOMAIN s }

U32LE(n) == << n % 256, (n \div 256) % 256, (n \div 65536) % 256, (n \div 16777216) % 256 >>

\* bit 31 of a stored property size: "iBoot should replace the value"
FlagBit31 == 128

ReadU32(mem, off) ==
    mem[off + 1] + 256 * mem[off + 2] + 65536 * mem[off + 3] + 16777216 * mem[off + 4]

\* prop->size & ~0x80000000
ReadSizeMasked(mem, off) ==
    mem[off + 1] + 256 * mem[off + 2] + 65536 * mem[off + 3]
        + 16777216 * (mem[off + 4] % FlagBit31)

\* sizeof(struct devicetree_node): two uint32_t
NodeHeaderSize == 8
\* sizeof(prop->name)
NameFieldSize == 32
\* sizeof(struct devicetree_property): char name[32]; uint32_t size; data[0]
PropHeaderSize == 36

----------------------------------------------------------------------------
(* Character codes and the strings of the source *)

NUL == 0

\* "name"
STR_name == <<110, 97, 109, 101>>
\* "NODE"
STR_NODE == <<78, 79, 68, 69>>

\* the bytes of a C string: up to, not including, the first NUL
RECURSIVE CStrFrom(_, _)
CStrFrom(mem, off) ==
    IF off >= Len(mem) \/ mem[off + 1] = NUL THEN <<>>
    ELSE <<mem[off + 1]>> \o CStrFrom(mem, off + 1)

----------------------------------------------------------------------------
(* The binary format: struct devicetree_node, struct devicetree_property *)

\* a property as encoded: the name field, the size field, the payload and
\* its padding to a multiple of 4 bytes (left out when padded is FALSE)
EncodeProperty(pr, padded) ==
    LET size  == Len(pr.value)
        field == U32LE(size)
        pad   == IF padded THEN (4 - (size % 4)) % 4 ELSE 0
    IN  pr.name \o Rep(NUL, NameFieldSize - Len(pr.name))
        \o [field EXCEPT ![4] = @ + (IF pr.flag THEN FlagBit31 ELSE 0)]
        \o pr.value \o Rep(NUL, pad)

RECURSIVE EncodeNode(_), EncodeProps(_), EncodeChildren(_)
EncodeProps(ps) ==
    IF ps = <<>> THEN <<>> ELSE EncodeProperty(Head(ps), TRUE) \o EncodeProps(Tail(ps))
EncodeChildren(cs) ==
    IF cs = <<>> THEN <<>> ELSE EncodeNode(Head(cs)) \o EncodeChildren(Tail(cs))
EncodeNode(t) ==
    U32LE(Len(t.props)) \o U32LE(Len(t.children))
        \o EncodeProps(t.props) \o EncodeChildren(t.children)

----------------------------------------------------------------------------
(* main.c: the value classifier *)

\* "segment-ranges"
STR_segment_ranges == <<115, 101, 103, 109, 101, 110, 116, 45, 114, 97, 110, 103, 101, 115>>
\* "function-"
STR_function == <<102, 117, 110, 99, 116, 105, 111, 110, 45>>
\* "reg"
STR_reg == <<114, 101, 103>>
\* '#'
CH_hash == 35

\* sizeof(struct phys_range): two uint64_t
PhysRangeSize == 16
\* sizeof(struct segment_range): three uint64_t and two uint32_t
SegmentRangeSize == 32

\* isprint in the C locale
isprint(c) == c >= 32 /\ c <= 126

\* an unsigned integer of w bytes is kept as its w bytes, least significant
\* first; a > b for two of the same width
UGt(a, b) ==
    \E k \in 1..Len(a) : a[k] > b[k] /\ \A j \in (k + 1)..Len(a) : a[j] = b[j]

UIsZero(a) == \A k \in 1..Len(a) : a[k] = 0

\* 0x980000000
U64_980000000 == <<0, 0, 0, 128, 9, 0, 0, 0>>
\* 0x80000000
U64_80000000 == <<0, 0, 0, 128, 0, 0, 0, 0>>

\* (phys & 0xfff) != 0
LowBits0xfff(a) == a[1] # 0 \/ a[2] % 16 # 0

\* the uint64_t at byte offset off of data
U64At(data, off) == SubSeq(data, off + 1, off + 8)
\* the uint32_t at byte offset off of data
U32At(data, off) == SubSeq(data, off + 1, off + 4)

read_uint(data) ==
    CASE Len(data) \in {1, 2, 4, 8} -> data \o Rep(0, 8 - Len(data))
      [] OTHER                     -> Rep(255, 8)

all_printable_ascii(data) == \A i \in 1..Len(data) : isprint(data[i])

\* one turn of the loop of measure_string, on the byte at index i (from 0);
\* m holds string_info and current_printable_run
MeasureByte(m, size, i, byte) ==
    LET printable == isprint(byte)
        run_ends  == ~printable /\ m.current_printable_run >= 8
    IN  [printable  |-> m.printable + (IF printable THEN 1 ELSE 0),
         first_null |-> IF byte = 0 /\ m.first_null = size THEN i ELSE m.first_null,
         after_null |-> m.after_null + (IF m.first_null # size /\ byte # 0 THEN 1 ELSE 0),
         null_count |-> m.null_count + (IF byte = 0 THEN 1 ELSE 0),
         printable_run_count |->
             m.printable_run_count + (IF run_ends THEN m.current_printable_run ELSE 0),
         current_printable_run |-> IF printable THEN m.current_printable_run + 1 ELSE 0]

RECURSIVE MeasureLoop(_, _, _)
MeasureLoop(data, i, m) ==
    IF i >= Len(data) THEN m
    ELSE MeasureLoop(data, i + 1, MeasureByte(m, Len(data), i, data[i + 1]))

\* after the loop of measure_string: the run the data end in is counted
MeasureEnd(m) ==
    [m EXCEPT !.printable_run_count =
         @ + (IF m.current_printable_run >= 8 THEN m.current_printable_run ELSE 0)]

measure_string(data) ==
    MeasureEnd(MeasureLoop(data, 0,
        [printable |-> 0, first_null |-> Len(data), after_null |-> 0,
         null_count |-> 0, printable_run_count |-> 0,
         current_printable_run |-> 0]))

\* the checks of one struct phys_range
PhysRangePlausible(phys, size) ==
    /\ ~UGt(phys, U64_980000000)
    /\ ~LowBits0xfff(phys)
    /\ ~UGt(size, U64_80000000)

check_phys_ranges(data) ==
    \A i \in 0..((Len(data) \div PhysRangeSize) - 1) :
        PhysRangePlausible(U64At(data, PhysRangeSize * i), U64At(data, PhysRangeSize * i + 8))

IsPrefix(s, t) == Len(s) <= Len(t) /\ SubSeq(t, 1, Len(s)) = s

\* strstr(name, s) != NULL
Contains(name, s) ==
    \E k \in 0..(Len(name) - Len(s)) : SubSeq(name, k + 1, k + Len(s)) = s

\* string.printable > 0.75 * size (variant)
MoreThan075(n, size) == 4 * n > 3 * size

\* string.printable >= 0.75 * size, in exact arithmetic (0.75 is a double)
AtLeast075(n, size) == 4 * n >= 3 * size
\* n >= 0.90 * size: the double nearest 0.9 differs from it by less than half a
\* unit in the last place of any product below 2^31, so the comparison of the
\* doubles agrees with the comparison of the exact values
AtLeast090(n, size) == 10 * n >= 9 * size
\* n >= 0.6 * size, likewise
AtLeast06(n, size) == 10 * n >= 6 * size

\* the decisions of compute_display_type, in their order; string is what
\* measure_string has put in string_info
DisplayTypeOf(name, data, size, string) ==
    IF size = 1 \/ size = 2 THEN "DISP_HEX_INT"
    ELSE IF name # <<>> /\ name[1] = CH_hash THEN "DISP_DEC_INT"
    ELSE IF size > 0 /\ size % SegmentRangeSize = 0 /\ name = STR_segment_ranges
        THEN "DISP_SEGMENT_RANGES"
    ELSE IF /\ string.printable = string.first_null
            /\ string.after_null = 0
            /\ ((size # 4 /\ size # 8) \/ string.printable >= size - 1)
        THEN "DISP_STRING"
    ELSE IF /\ IsPrefix(STR_function, name)
            /\ size >= 8
            /\ size % 4 = 0
            /\ all_printable_ascii(SubSeq(data, 5, 8))
        THEN "DISP_FUNCTION_PROP"
    ELSE IF AtLeast075(string.printable, size) THEN "DISP_HEX_STRING"
    ELSE IF /\ size > 0
            /\ size % PhysRangeSize = 0
            /\ (Contains(name, STR_reg) \/ check_phys_ranges(data))
        THEN "DISP_PHYS_RANGES"
    ELSE IF /\ string.printable >= 2
            /\ size >= 24
            /\ AtLeast090(string.printable + string.null_count, size)
        THEN "DISP_HEX_STRING"
    ELSE IF /\ string.printable_run_count > 0
            /\ size >= 24
            /\ AtLeast06(string.printable_run_count + string.null_count, size)
        THEN "DISP_HEX_STRING"
    ELSE IF size = 4 \/ size = 8 THEN "DISP_HEX_INT"
    ELSE "DISP_HEX_DUMP"

\* the name is the C string at the name pointer, the data are the size bytes
compute_display_type(name, data) ==
    DisplayTypeOf(name, data, Len(data), measure_string(data))

----------------------------------------------------------------------------
(* main.c: printf conversions *)

\* "0123456789abcdef"
HexDigits == <<48, 49, 50, 51, 52, 53, 54, 55, 56, 57, 97, 98, 99, 100, 101, 102>>

\* "%02x" of a byte
Hex02(b) == <<HexDigits[(b \div 16) + 1], HexDigits[(b % 16) + 1]>>

RECURSIVE StripLeadingZeros(_)
StripLeadingZeros(t) ==
    IF Len(t) > 1 /\ t[1] = 48 THEN StripLeadingZeros(Tail(t)) ELSE t

\* the hexadecimal digits of an unsigned integer, all of them
RECURSIVE HexAll(_)
HexAll(a) ==
    IF a = <<>> THEN <<>> ELSE Hex02(a[Len(a)]) \o HexAll(SubSeq(a, 1, Len(a) - 1))

\* "%llx" of a uint64_t, "%x" of a uint32_t
FmtHex(a) == StripLeadingZeros(HexAll(a))

\* the quotient and the remainder of an unsigned integer by 10, by long
\* division from the most significant byte down to byte k
\* the step of the long division at byte k: up is the quotient and the
\* remainder of the bytes above it
DivStep(up, k) ==
    [q |-> [up.q EXCEPT ![k] = (up.r * 256 + @) \div 10], r |-> (up.r * 256 + up.q[k]) % 10]

RECURSIVE DivMod10(_, _)
DivMod10(a, k) ==
    IF k > Len(a) THEN [q |-> a, r |-> 0] ELSE DivStep(DivMod10(a, k + 1), k)

\* the decimal digits of an unsigned integer; d is its quotient and
\* remainder by 10
RECURSIVE FmtUnsigned(_), DigitsAfter(_)
DigitsAfter(d) ==
    IF UIsZero(d.q) THEN <<48 + d.r>> ELSE FmtUnsigned(d.q) \o <<48 + d.r>>
FmtUnsigned(a) == DigitsAfter(DivMod10(a, 1))

\* a + 1 modulo 2^(8 * Len(a)), from byte k on
RECURSIVE AddOne(_, _)
AddOne(a, k) ==
    IF k > Len(a) THEN a
    ELSE IF a[k] = 255 THEN AddOne([a EXCEPT ![k] = 0], k + 1)
    ELSE [a EXCEPT ![k] = @ + 1]

\* -a modulo 2^(8 * Len(a))
Negate(a) == AddOne([k \in 1..Len(a) |-> 255 - a[k]], 1)

\* "-"
TXT_minus == <<45>>

\* "%lld": the argument is read as a long long
FmtLLD(a) ==
    IF a[Len(a)] >= 128 THEN TXT_minus \o FmtUnsigned(Negate(a)) ELSE FmtUnsigned(a)

----------------------------------------------------------------------------
(* main.c: struct strbuf.  str holds the bytes of the allocation that have *)
(* been written, from its start; those after them are indeterminate.       *)
(* failed records an assertion of the source that did not hold.            *)
(***************************************************************************)

\* (size_t)-1, the maximum of the sink in verbose mode; no capacity or
\* position of the model comes near it
SizeMax == 2147483647
\* the capacity strbuf_alloc starts from
DefaultCap == 16384
\* the maximum of the sink when not verbose
ShortMax == 64

Min(a, b) == IF a < b THEN a ELSE b

strbuf_alloc(max) ==
    [str |-> <<NUL>>, pos |-> 0, cap |-> Min(DefaultCap, max), max |-> max, failed |-> FALSE]

\* a vsnprintf that keeps no room for the NUL (variant)
VsnprintfNoRoom(str, pos, size, text) ==
    IF size = 0 THEN str
    ELSE LET w     == Min(Len(text), size)
             wrote == SubSeq(str, 1, pos) \o SubSeq(text, 1, w) \o <<NUL>>
         IN  wrote \o SubSeq(str, Len(wrote) + 1, Len(str))

\* vsnprintf(str + pos, size, ...) of a text: at most size - 1 characters of
\* it and a NUL, nothing when size is 0
Vsnprintf(str, pos, size, text) ==
    IF size = 0 THEN str
    ELSE LET w     == Min(Len(text), size - 1)
             wrote == SubSeq(str, 1, pos) \o SubSeq(text, 1, w) \o <<NUL>>
         IN  wrote \o SubSeq(str, Len(wrote) + 1, Len(str))

\* what strbuf_vprintf_no_grow takes as already full
AlreadyFull(sb) == sb.cap = 0 \/ sb.pos >= sb.cap - 1

\* new_pos > strbuf->cap - 1, in size_t
Overflowed(new_pos, cap) == new_pos > (IF cap = 0 THEN SizeMax ELSE cap - 1)

\* strbuf_vprintf_no_grow after its vsnprintf has left sb1
VprintfResult(sb1, new_pos) ==
    IF Overflowed(new_pos, sb1.cap)
    THEN [ok |-> FALSE, sb |-> sb1, req_cap |-> new_pos + 1]
    ELSE [ok |-> TRUE, sb |-> [sb1 EXCEPT !.pos = new_pos], req_cap |-> 0]

strbuf_vprintf_no_grow(sb, text) ==
    VprintfResult(
        [sb EXCEPT !.str = Vsnprintf(sb.str, sb.pos,
                               IF AlreadyFull(sb) THEN 0 ELSE sb.cap - sb.pos, text),
                   !.failed = (@ \/ sb.cap > sb.max)],
        sb.pos + Len(text))

\* the position strbuf_printf leaves when there is no capacity to grow into
PosWhenFull(req_cap) == req_cap - 1

\* strbuf_printf after the second strbuf_vprintf_no_grow, which is asserted
\* to fit
PrintfRetried(r2) == [ok |-> TRUE, sb |-> [r2.sb EXCEPT !.failed = (@ \/ ~r2.ok)]]

\* a strbuf_printf that grows to the characters it needs and forgets the
\* NUL (variant)
PrintfTriedGrowsShort(r, text) ==
    IF r.ok THEN [ok |-> TRUE, sb |-> r.sb]
    ELSE IF r.req_cap > r.sb.max
    THEN [ok |-> FALSE,
          sb |-> [r.sb EXCEPT !.pos = PosWhenFull(r.req_cap),
                              !.failed = (@ \/ PosWhenFull(r.req_cap) < r.sb.cap)]]
    ELSE PrintfRetried(strbuf_vprintf_no_grow([r.sb EXCEPT !.cap = r.req_cap - 1], text))

\* strbuf_printf after the first strbuf_vprintf_no_grow
PrintfTried(r, text) ==
    IF r.ok THEN [ok |-> TRUE, sb |-> r.sb]
    ELSE IF r.req_cap > r.sb.max
    THEN [ok |-> FALSE,
          sb |-> [r.sb EXCEPT !.pos = PosWhenFull(r.req_cap),
                              !.failed = (@ \/ PosWhenFull(r.req_cap) < r.sb.cap)]]
    ELSE PrintfRetried(strbuf_vprintf_no_grow([r.sb EXCEPT !.cap = r.req_cap], text))

strbuf_printf(sb, text) == PrintfTried(strbuf_vprintf_no_grow(sb, text), text)

\* the calls of strbuf_printf of one turn of a loop, whose result is that
\* of the last
RECURSIVE PrintfEach(_, _)
PrintfEach(r, texts) ==
    IF texts = <<>> THEN r
    ELSE PrintfEach(strbuf_printf(r.sb, Head(texts)), Tail(texts))

\* for (...; ok && ...; ...): the turns of a loop, each a sequence of texts
\* printed, as long as ok
RECURSIVE PrintfLoop(_, _)
PrintfLoop(r, turns) ==
    IF turns = <<>> \/ ~r.ok THEN r
    ELSE PrintfLoop(PrintfEach(r, Head(turns)), Tail(turns))

----------------------------------------------------------------------------
(* main.c: the formatters *)

\* "0"
TXT_0 == <<48>>
\* "0x"
TXT_0x == <<48, 120>>
\* ","
TXT_comma == <<44>>
\* "; "
TXT_semi == <<59, 32>>
\* " "
TXT_space == <<32>>
\* the double quote
TXT_quote == <<34>>
\* the backslash
TXT_backslash == <<92>>
\* backslash, 0
TXT_esc_nul == <<92, 48>>
\* backslash, x
TXT_esc_x == <<92, 120>>
\* "{ phys=0x"
TXT_phys == <<123, 32, 112, 104, 121, 115, 61, 48, 120>>
\* ", virt=0x"
TXT_virt == <<44, 32, 118, 105, 114, 116, 61, 48, 120>>
\* ", remap=0x"
TXT_remap == <<44, 32, 114, 101, 109, 97, 112, 61, 48, 120>>
\* ", size=0x"
TXT_size == <<44, 32, 115, 105, 122, 101, 61, 48, 120>>
\* ", flags=0x"
TXT_flags == <<44, 32, 102, 108, 97, 103, 115, 61, 48, 120>>
\* " }"
TXT_close == <<32, 125>>
\* "..."
TXT_dots == <<46, 46, 46>>

Started(sb) == [ok |-> TRUE, sb |-> sb]

\* "%02x%s" of the byte at index i (from 1) of size: print_end is end
HexDumpText(b, i, size) == Hex02(b) \o (IF i = size THEN <<>> ELSE TXT_space)

print_property_hex_dump(sb, data) ==
    PrintfLoop(Started(sb),
        [i \in 1..Len(data) |-> << HexDumpText(data[i], i, Len(data)) >>])

\* "0" or "0x%llx"
HexIntText(value) == IF UIsZero(value) THEN TXT_0 ELSE TXT_0x \o FmtHex(value)

print_property_hex_int(sb, data) == strbuf_printf(sb, HexIntText(read_uint(data)))

\* the conversion print_property_dec_int prints the value with
DecIntText(value) == FmtLLD(value)

print_property_dec_int(sb, data) == strbuf_printf(sb, DecIntText(read_uint(data)))

\* a turn that asks isprint first, so that a backslash and a double quote
\* are printed as they are (variant)
HexStringTurnPrintableFirst(c) ==
    << IF isprint(c) THEN <<c>>
       ELSE IF c = 34 THEN <<92, 34>>
       ELSE IF c = 0 THEN TXT_esc_nul
       ELSE TXT_esc_x \o Hex02(c) >>

\* what one turn of the loop of print_property_hex_string prints of byte c
HexStringTurn(c) ==
    (IF c = 92 \/ c = 34 THEN <<TXT_backslash>> ELSE <<>>)
    \o << IF c = 0 THEN TXT_esc_nul
          ELSE IF isprint(c) THEN <<c>>
          ELSE TXT_esc_x \o Hex02(c) >>

\* if (ok) ok = strbuf_printf(sb, "\"")
CloseQuote(body) == IF body.ok THEN strbuf_printf(body.sb, TXT_quote) ELSE body

print_property_hex_string(sb, data) ==
    CloseQuote(PrintfLoop(strbuf_printf(sb, TXT_quote),
                   [i \in 1..Len(data) |-> HexStringTurn(data[i])]))

\* strnlen(data, size)
strnlen(data) ==
    IF \E i \in 1..Len(data) : data[i] = NUL
    THEN (CHOOSE i \in 1..Len(data) : data[i] = NUL /\ \A j \in 1..(i - 1) : data[j] # NUL) - 1
    ELSE Len(data)

print_property_string(sb, data) ==
    LET r == print_property_hex_string(sb, SubSeq(data, 1, strnlen(data)))
    IN  [r EXCEPT !.sb.failed = (@ \/ Len(data) = 0)]

print_property_function(sb, data) == print_property_hex_string(sb, data)

\* a separator after every struct phys_range, the last included (variant)
PhysRangeTextSeparated(data, i, count) ==
    TXT_0x \o FmtHex(U64At(data, PhysRangeSize * i)) \o TXT_comma
        \o FmtHex(U64At(data, PhysRangeSize * i + 8)) \o TXT_semi

\* "0x%llx,%llx%s" of the i-th struct phys_range (from 0) of count
PhysRangeText(data, i, count) ==
    TXT_0x \o FmtHex(U64At(data, PhysRangeSize * i)) \o TXT_comma
        \o FmtHex(U64At(data, PhysRangeSize * i + 8))
        \o (IF i = count - 1 THEN <<>> ELSE TXT_semi)

print_property_phys_ranges(sb, data) ==
    LET count == Len(data) \div PhysRangeSize
        r     == PrintfLoop(Started(sb),
                     [k \in 1..count |-> << PhysRangeText(data, k - 1, count) >>])
    IN  [r EXCEPT !.sb.failed = (@ \/ Len(data) % PhysRangeSize # 0 \/ Len(data) = 0)]

\* the text of the i-th struct segment_range (from 0) of count
SegmentRangeText(data, i, count) ==
    LET at == SegmentRangeSize * i
    IN  TXT_phys \o FmtHex(U64At(data, at))
        \o TXT_virt \o FmtHex(U64At(data, at + 8))
        \o TXT_remap \o FmtHex(U64At(data, at + 16))
        \o TXT_size \o FmtHex(U32At(data, at + 24))
        \o TXT_flags \o FmtHex(U32At(data, at + 28))
        \o TXT_close \o (IF i = count - 1 THEN <<>> ELSE TXT_semi)

print_property_segment_ranges(sb, data) ==
    LET count == Len(data) \div SegmentRangeSize
        r     == PrintfLoop(Started(sb),
                     [k \in 1..count |-> << SegmentRangeText(data, k - 1, count) >>])
    IN  [r EXCEPT !.sb.failed = (@ \/ Len(data) % SegmentRangeSize # 0 \/ Len(data) = 0)]

\* the switch of print_property
PrintAs(disp, sb, value) ==
    CASE disp = "DISP_HEX_INT"        -> print_property_hex_int(sb, value)
      [] disp = "DISP_DEC_INT"        -> print_property_dec_int(sb, value)
      [] disp = "DISP_STRING"         -> print_property_string(sb, value)
      [] disp = "DISP_HEX_STRING"     -> print_property_hex_string(sb, value)
      [] disp = "DISP_FUNCTION_PROP"  -> print_property_function(sb, value)
      [] disp = "DISP_PHYS_RANGES"    -> print_property_phys_ranges(sb, value)
      [] disp = "DISP_SEGMENT_RANGES" -> print_property_segment_ranges(sb, value)
      [] OTHER                        -> print_property_hex_dump(sb, value)

print_property(sb, name, value) == PrintAs(compute_display_type(name, value), sb, value)

\* what printf("%s", sb.str) prints
StrOf(sb) == SubSeq(sb.str, 1, strnlen(sb.str))

----------------------------------------------------------------------------
(* The observers.  A callback block is named by a string; "NULL" is the    *)
(* null block.  The observers' own state and the walker's stop flag travel *)
(* together in one record st:                                              *)
(*   stop      the bool the walker hands to every observer                 *)
(*   log       the invocations seen so far by the recording observers      *)
(*   node_name the __block pointer of devicetree_print: [kind, at], of     *)
(*             kind "value" (the address at of a property value), "NODE"   *)
(*             (the literal) or, never yet assigned, "null", "buffer" (it  *)
(*             happens to hold the address at) or "wild"                   *)
(*   sb        the __block strbuf of devicetree_print                      *)
(*   out       the lines devicetree_print has printed                      *)
(*   crashed   printf was handed a pointer to no memory                    *)
(***************************************************************************)

NodeEvent(depth, node, size, n_properties, n_children) ==
    [type |-> "node", depth |-> depth, node |-> node, size |-> size,
     n_properties |-> n_properties, n_children |-> n_children]

PropEvent(depth, name, value, size) ==
    [type |-> "prop", depth |-> depth, name |-> name, value |-> value, size |-> size]

\* a caller's observer: records its invocation and requests stop at its
\* stopAt-th invocation (never when stopAt = 0)
Record(cb, st, ev) ==
    LET log == Append(st.log, ev)
    IN  [st EXCEPT !.log = log, !.stop = (@ \/ Len(log) = cb.stopAt)]

\* a do_not_scan_children that lets the children's properties pass (variant)
StopsBelowChildren(depth) == depth > 1

\* do_not_scan_children of devicetree_node_scan_properties
DoNotScanChildrenStops(depth) == depth # 0

\* find_node_name_cb of devicetree_print; it is handed the name and the value
\* as pointers and keeps the value's
find_node_name_cb(mem, st, name, value) ==
    IF CStrFrom(mem, name) = STR_name
    THEN [st EXCEPT !.node_name = [kind |-> "value", at |-> value]]
    ELSE st

\* "(null)", what printf prints for a null %s argument
STR_null == <<40, 110, 117, 108, 108, 41>>

\* what printf("%s", node_name) prints
NodeNameText(mem, node_name) ==
    CASE node_name.kind \in {"value", "buffer"} -> CStrFrom(mem, node_name.at)
      [] node_name.kind = "NODE"                -> STR_NODE
      [] node_name.kind = "null"                -> STR_null
      [] OTHER                                  -> <<>>

\* printf("%s:\n", node_name) of node_cb
PrintNodeName(mem, st, depth, node_name) ==
    [st EXCEPT !.node_name = node_name,
               !.crashed = (@ \/ node_name.kind = "wild"),
               !.out = Append(@, [type |-> "node", depth |-> depth,
                                  text |-> NodeNameText(mem, node_name)])]

\* the rest of node_cb of devicetree_print, after the scan for the name
PrintNodeLine(mem, scan, depth) ==
    PrintNodeName(mem, scan.st, depth,
        IF scan.ok THEN scan.st.node_name ELSE [kind |-> "NODE", at |-> 0])

\* what property_cb does with a value that is not empty: sb.pos = 0, then
\* print_property, then printf("%s%s", sb.str, complete ? "" : "...")
ValueText(r) ==
    [sb |-> r.sb, complete |-> r.ok,
     text |-> StrOf(r.sb) \o (IF r.ok THEN <<>> ELSE TXT_dots)]

PrintValue(sb, name, data) == ValueText(print_property([sb EXCEPT !.pos = 0], name, data))

\* property_cb of devicetree_print: the line is the name, the size and, of a
\* value that is not empty, what PrintValue prints
PropertyLine(st, depth, name, size, r) ==
    [st EXCEPT !.sb = r.sb,
               !.out = Append(@, [type |-> "prop", depth |-> depth, name |-> name,
                                  size |-> size, text |-> r.text])]

property_cb(mem, st, depth, name, value, size) ==
    PropertyLine(st, depth, CStrFrom(mem, name), size,
        IF size > 0
        THEN PrintValue(st.sb, CStrFrom(mem, name), SubSeq(mem, value + 1, value + size))
        ELSE [sb |-> st.sb, complete |-> TRUE, text |-> <<>>])

----------------------------------------------------------------------------
(* devicetree-parse.c *)

\* no padding of the payload (variant)
PaddedSizeNone(prop_size) == prop_size

\* (prop_size + 0x3) & ~0x3
PaddedSize(prop_size) == ((prop_size + 3) \div 4) * 4

\* easing up whenever the unpadded payload lies within the buffer (variant)
AtVeryEndLax(p, padded_size, prop_size, end) == p - padded_size + prop_size <= end + 3

\* "We're at the very end, ease up on the lack of padding."
AtVeryEnd(p, padded_size, prop_size, end) == p - padded_size + prop_size = end

\* the depth a property callback is given
PropertyDepth(depth) == depth + 1

\* children iterated at their parent's depth (variant)
SameDepth(depth) == depth

\* the depth a child node is iterated at
ChildDepth(depth) == depth + 1

\* a stop reported as a failure (variant)
StoppedAsFailure == FALSE

\* what devicetree_iterate_node returns when an observer has set *stop
StoppedResult == TRUE

Ret(ok, data, st) == [ok |-> ok, data |-> data, st |-> st]

RECURSIVE devicetree_iterate_node(_, _, _, _, _, _)
RECURSIVE IterateProperties(_, _, _, _, _, _, _, _, _, _)
RECURSIVE IterateChildren(_, _, _, _, _, _, _, _)
RECURSIVE AfterChild(_, _, _, _, _, _, _), AfterProperty(_, _, _, _, _, _, _, _, _, _)
RECURSIVE CheckedProperty(_, _, _, _, _, _, _, _, _, _, _, _, _)
RECURSIVE AfterNode(_, _, _, _, _, _, _, _, _)
RECURSIVE node_callback(_, _, _, _, _, _, _, _)
RECURSIVE devicetree_iterate(_, _, _, _, _)
RECURSIVE devicetree_node_scan_properties(_, _, _, _, _)

property_callback(mem, cb, depth, name, value, size, st) ==
    CASE cb.prop = "record"            -> Record(cb, st, PropEvent(depth, name, value, size))
      [] cb.prop = "find_node_name_cb" -> find_node_name_cb(mem, st, name, value)
      [] cb.prop = "property_cb"       -> property_cb(mem, st, depth, name, value, size)
      [] OTHER                         -> st

node_callback(mem, cb, depth, node, size, n_properties, n_children, st) ==
    CASE cb.node = "record" ->
            Record(cb, st, NodeEvent(depth, node, size, n_properties, n_children))
      [] cb.node = "do_not_scan_children" ->
            IF DoNotScanChildrenStops(depth) THEN [st EXCEPT !.stop = TRUE] ELSE st
      [] cb.node = "node_cb" ->
            PrintNodeLine(mem,
                devicetree_node_scan_properties(mem, node, size, "find_node_name_cb", st),
                depth)
      [] OTHER -> st

\* a children loop that goes on to the next sibling when a child's frame
\* has returned on a stop (variant)
AfterChildGoesOn(mem, end, depth, cb, r, i, n_children) ==
    IF ~r.ok THEN Ret(FALSE, r.data, r.st)
    ELSE IterateChildren(mem, r.data, end, depth, cb, r.st, i + 1, n_children)

\* the children loop after the call of devicetree_iterate_node on child i
\* has returned r
AfterChild(mem, end, depth, cb, r, i, n_children) ==
    IF ~r.ok THEN Ret(FALSE, r.data, r.st)
    ELSE IF r.st.stop THEN Ret(StoppedResult, r.data, r.st)
    ELSE IterateChildren(mem, r.data, end, depth, cb, r.st, i + 1, n_children)

\* the loop over a node's children, from child i on; data is *data
IterateChildren(mem, data, end, depth, cb, st, i, n_children) ==
    IF i >= n_children THEN Ret(TRUE, data, st)
    ELSE AfterChild(mem, end, depth, cb,
             devicetree_iterate_node(mem, data, end, ChildDepth(depth), cb, st),
             i, n_children)

\* the property loop after the property callback of property i has left st1;
\* the cursor is at p
AfterProperty(mem, data, end, depth, cb, st1, i, n_properties, n_children, p) ==
    IF st1.stop THEN Ret(StoppedResult, data, st1)
    ELSE IterateProperties(mem, data, end, depth, cb, st1,
             i + 1, n_properties, n_children, p)

\* a property loop that invokes the observer before it has checked that the
\* payload lies within the buffer (variant)
CheckedPropertyReportsFirst(mem, data, end, depth, cb, st, i, n_properties, n_children, prop, prop_size, padded_size, p) ==
    IF p > end /\ ~AtVeryEnd(p, padded_size, prop_size, end)
    THEN Ret(FALSE, data,
             property_callback(mem, cb, PropertyDepth(depth),
                 prop, prop + PropHeaderSize, prop_size, st))
    ELSE AfterProperty(mem, data, end, depth, cb,
             IF cb.prop # "NULL"
             THEN property_callback(mem, cb, PropertyDepth(depth),
                      prop, prop + PropHeaderSize, prop_size, st)
             ELSE st,
             i, n_properties, n_children,
             IF p > end THEN end ELSE p)

\* the property loop on the property at prop whose header lies within the
\* buffer and whose name is terminated; p is the cursor after the padded
\* payload
CheckedProperty(mem, data, end, depth, cb, st, i, n_properties, n_children, prop, prop_size, padded_size, p) ==
    IF p > end /\ ~AtVeryEnd(p, padded_size, prop_size, end) THEN Ret(FALSE, data, st)
    ELSE AfterProperty(mem, data, end, depth, cb,
             IF cb.prop # "NULL"
             THEN property_callback(mem, cb, PropertyDepth(depth),
                      prop, prop + PropHeaderSize, prop_size, st)
             ELSE st,
             i, n_properties, n_children,
             IF p > end THEN end ELSE p)

\* a property loop that invokes the observer before it has checked that the
\* property header lies within the buffer (variant)
IteratePropertiesReportsFirst(mem, data, end, depth, cb, st, i, n_properties, n_children, p) ==
    IF i >= n_properties
    THEN IterateChildren(mem, p, end, depth, cb, st, 0, n_children)
    ELSE IF p + PropHeaderSize > end
    THEN Ret(FALSE, data,
             property_callback(mem, cb, PropertyDepth(depth), p, p + PropHeaderSize, 0, st))
    ELSE IF mem[p + NameFieldSize] # NUL THEN Ret(FALSE, data, st)
    ELSE CheckedProperty(mem, data, end, depth, cb, st, i, n_properties, n_children,
             p, ReadSizeMasked(mem, p + NameFieldSize),
             PaddedSize(ReadSizeMasked(mem, p + NameFieldSize)),
             p + PropHeaderSize + PaddedSize(ReadSizeMasked(mem, p + NameFieldSize)))

\* the loop over a node's properties, from property i on, with the cursor at p
IterateProperties(mem, data, end, depth, cb, st, i, n_properties, n_children, p) ==
    IF i >= n_properties
    THEN \* *data = p, then the children
         IterateChildren(mem, p, end, depth, cb, st, 0, n_children)
    ELSE IF p + PropHeaderSize > end THEN Ret(FALSE, data, st)
    \* prop->name[sizeof(prop->name) - 1], the byte at offset prop + 31
    ELSE IF mem[p + NameFieldSize] # NUL THEN Ret(FALSE, data, st)
    ELSE CheckedProperty(mem, data, end, depth, cb, st, i, n_properties, n_children,
             p, ReadSizeMasked(mem, p + NameFieldSize),
             PaddedSize(ReadSizeMasked(mem, p + NameFieldSize)),
             p + PropHeaderSize + PaddedSize(ReadSizeMasked(mem, p + NameFieldSize)))

\* devicetree_iterate_node after the node callback has left st1
AfterNode(mem, data, end, depth, cb, st1, n_properties, n_children, p) ==
    IF st1.stop THEN Ret(StoppedResult, data, st1)
    ELSE IterateProperties(mem, data, end, depth, cb, st1, 0, n_properties, n_children, p)

\* a walker that takes a node whose header lies beyond the end as absent
\* (variant)
IterateNodeOrNone(mem, data, end, depth, cb, st) ==
    IF data + NodeHeaderSize > end THEN Ret(TRUE, data, st)
    ELSE AfterNode(mem, data, end, depth, cb,
             IF cb.node # "NULL"
             THEN node_callback(mem, cb, depth, data,
                      end - (data + NodeHeaderSize) + NodeHeaderSize,
                      ReadU32(mem, data), ReadU32(mem, data + 4), st)
             ELSE st,
             ReadU32(mem, data), ReadU32(mem, data + 4), data + NodeHeaderSize)

devicetree_iterate_node(mem, data, end, depth, cb, st) ==
    IF data + NodeHeaderSize > end THEN Ret(FALSE, data, st)
    ELSE AfterNode(mem, data, end, depth, cb,
             IF cb.node # "NULL"
             THEN node_callback(mem, cb, depth, data,
                      end - (data + NodeHeaderSize) + NodeHeaderSize,
                      ReadU32(mem, data), ReadU32(mem, data + 4), st)
             ELSE st,
             ReadU32(mem, data), ReadU32(mem, data + 4), data + NodeHeaderSize)

\* the stop flag is a local of devicetree_iterate: the caller's is put back
IterateResult(r, st) == Ret(r.ok, r.data, [r.st EXCEPT !.stop = st.stop])

devicetree_iterate(mem, data, size, cb, st) ==
    IterateResult(
        devicetree_iterate_node(mem, data, data + size, 0, cb, [st EXCEPT !.stop = FALSE]),
        st)

devicetree_node_scan_properties(mem, node, size, prop_cb, st) ==
    devicetree_iterate(mem, node, size,
        [node |-> "do_not_scan_children", prop |-> prop_cb, stopAt |-> 0], st)

\* the observers' state at the start of a call; node_name is not initialized
\* and holds what the memory held
InitialSt(max, garbage) ==
    [stop |-> FALSE, log |-> <<>>, node_name |-> garbage, sb |-> strbuf_alloc(max),
     out |-> <<>>, crashed |-> FALSE]

\* strbuf_alloc(&sb, print_verbose ? -1 : 64)
SinkMax(verbose) == IF verbose THEN SizeMax ELSE ShortMax

\* return (ok && (processed == (uint8_t *)data + size))
PrintResult(r, size) ==
    [ok |-> r.ok /\ r.data = size, out |-> r.st.out, crashed |-> r.st.crashed,
     sb |-> r.st.sb]

devicetree_print(mem, size, verbose, garbage) ==
    PrintResult(
        devicetree_iterate(mem, 0, size,
            [node |-> "node_cb", prop |-> "property_cb", stopAt |-> 0],
            InitialSt(SinkMax(verbose), garbage)),
        size)

----------------------------------------------------------------------------
(* The input trees.  A tree is [props, children]; a property is            *)
(* [name, value, flag].  The shape of a tree is the sequence of its nodes' *)
(* depths in pre-order; every node of a tree draws its properties from one *)
(* list of property kinds, the nodes at even positions leaving out the     *)
(* first, and a property's value carries the position of its node.         *)
(***************************************************************************)

Shapes ==
    { s \in UNION { [1..n -> 0..(n - 1)] : n \in 1..MaxNodes } :
        /\ s[1] = 0
        /\ \A i \in 2..Len(s) : s[i] >= 1 /\ s[i] <= s[i - 1] + 1 }

\* "word" is a value of whole words: one at the odd positions, none at the even
PropKinds == {"name", "flag", "word"}

PropLists ==
    { l \in UNION { [1..n -> PropKinds] : n \in 0..MaxProps } :
        \A i, j \in 1..Len(l) : i # j => l[i] # l[j] }

\* the property of kind k of the node at pre-order position i
MakeProp(k, i) ==
    CASE k = "name" -> [name |-> STR_name, value |-> <<78, 48 + i, NUL>>, flag |-> FALSE]
      [] k = "flag" -> [name |-> <<102>>, value |-> <<i>>, flag |-> TRUE]
      [] k = "word" -> [name |-> <<119>>, flag |-> FALSE,
                        value |-> IF i % 2 = 1 THEN <<i, 1, 0, 0>> ELSE <<>>]

NodeProps(pl, i) ==
    LET l == IF i % 2 = 1 \/ pl = <<>> THEN pl ELSE Tail(pl)
    IN  [k \in 1..Len(l) |-> MakeProp(l[k], i)]

\* the positions of the children of the node at position i, in order
ChildPositions(shape, i) ==
    LET S == { j \in (i + 1)..Len(shape) :
                 /\ shape[j] = shape[i] + 1
                 /\ \A k \in (i + 1)..(j - 1) : shape[k] > shape[i] }
    IN  CHOOSE q \in [1..Cardinality(S) -> S] :
            \A a, b \in 1..Cardinality(S) : a < b => q[a] < q[b]

RECURSIVE BuildNode(_, _, _)
BuildNode(shape, pl, i) ==
    LET ch == ChildPositions(shape, i)
    IN  [props    |-> NodeProps(pl, i),
         children |-> [k \in 1..Len(ch) |-> BuildNode(shape, pl, ch[k])]]

Trees == { BuildNode(shape, pl, 1) : shape \in Shapes, pl \in PropLists }

\* the padding after the final property of the whole buffer (0 when the
\* buffer ends with a node header)
RECURSIVE FinalPadding(_)
FinalPadding(t) ==
    IF t.children # <<>> THEN FinalPadding(t.children[Len(t.children)])
    ELSE IF t.props = <<>> THEN 0
    ELSE (4 - (Len(t.props[Len(t.props)].value) % 4)) % 4

\* the encodings of a tree: fully padded, and with the final property's
\* padding left out
Encodings(t) ==
    LET full == EncodeNode(t)
    IN  { full, SubSeq(full, 1, Len(full) - FinalPadding(t)) }

----------------------------------------------------------------------------
(* The calls *)

NoObservers == [node |-> "NULL", prop |-> "NULL", stopAt |-> 0]
Recording(stopAt) == [node |-> "record", prop |-> "record", stopAt |-> stopAt]

\* the state of observers that keep no name and print nothing
St0 == InitialSt(ShortMax, [kind |-> "null", at |-> 0])

\* what the memory of node_name may hold before it is first assigned
Garbage == { [kind |-> "null", at |-> 0], [kind |-> "buffer", at |-> 0],
             [kind |-> "wild", at |-> 0] }

NoArg == [size |-> 0, stopAt |-> 0, node |-> 0, verbose |-> FALSE,
          garbage |-> [kind |-> "null", at |-> 0]]
NoRes == [ok |-> FALSE, data |-> 0, log |-> <<>>, out |-> <<>>, crashed |-> FALSE]
NoLast == [name |-> <<>>, value |-> <<>>, disp |-> "", complete |-> FALSE, text |-> <<>>]
\* a strbuf before strbuf_alloc
NoSink == [str |-> <<>>, pos |-> 0, cap |-> 0, max |-> 0, failed |-> FALSE]

\* the record of the node callbacks of a full traversal of the buffer
NodeEventsOf(mem) ==
    SelectSeq(devicetree_iterate(mem, 0, Len(mem), Recording(0), St0).st.log,
              LAMBDA e : e.type = "node")

Init ==
    /\ tree \in Trees
    /\ buf \in Encodings(tree)
    /\ pc = "idle"
    /\ arg = NoArg
    /\ res = NoRes
    /\ todo = <<>>
    /\ sink = NoSink
    /\ last = NoLast

\* what the caller keeps of a walk: the result, *data and the observers' log
Walked(r) == [NoRes EXCEPT !.ok = r.ok, !.data = r.data, !.log = r.st.log]

\* what the caller keeps of devicetree_print: the result and the output
Shown(r) == [NoRes EXCEPT !.ok = r.ok, !.out = r.out, !.crashed = r.crashed]

\* devicetree_iterate on the first size bytes of the buffer, with observers
\* that record and never request stop
Iterate(size) ==
    /\ pc = "idle"
    /\ res' = Walked(devicetree_iterate(SubSeq(buf, 1, size), 0, size, Recording(0), St0))
    /\ arg' = [NoArg EXCEPT !.size = size]
    /\ pc' = "iterate"
    /\ UNCHANGED <<tree, buf, fmtVars>>

\* devicetree_iterate on the whole buffer, with observers of which the
\* stopAt-th invoked requests stop
IterateStop(stopAt) ==
    /\ pc = "idle"
    /\ res' = Walked(devicetree_iterate(buf, 0, Len(buf), Recording(stopAt), St0))
    /\ arg' = [NoArg EXCEPT !.size = Len(buf), !.stopAt = stopAt]
    /\ pc' = "stop"
    /\ UNCHANGED <<tree, buf, fmtVars>>

\* devicetree_node_scan_properties on a node a node callback was handed
Scan(e) ==
    /\ pc = "idle"
    /\ res' = Walked(devicetree_node_scan_properties(buf, e.node, e.size, "record", St0))
    /\ arg' = [NoArg EXCEPT !.size = e.size, !.node = e.node]
    /\ pc' = "scan"
    /\ UNCHANGED <<tree, buf, fmtVars>>

\* devicetree_print on the first size bytes of the buffer
DevicetreePrint(size, verbose, garbage) ==
    /\ pc = "idle"
    /\ res' = Shown(devicetree_print(SubSeq(buf, 1, size), size, verbose, garbage))
    /\ arg' = [NoArg EXCEPT !.size = size, !.verbose = verbose, !.garbage = garbage]
    /\ pc' = "print"
    /\ UNCHANGED <<tree, buf, fmtVars>>

Next ==
    \/ \E size \in 0..Len(buf) : Iterate(size)
    \/ \E stopAt \in 1..(MaxNodes * (MaxProps + 1)) : IterateStop(stopAt)
    \/ /\ pc = "idle"
       /\ \E e \in Range(NodeEventsOf(buf)) : Scan(e)
    \/ \E size \in (Len(buf) - MaxCut)..Len(buf), verbose \in BOOLEAN, garbage \in Garbage :
           DevicetreePrint(size, verbose, garbage)

Spec == Init /\ [][Next]_vars

----------------------------------------------------------------------------
(* The formatting of property values: devicetree_print allocates the sink, *)
(* and property_cb prints into it every property of the traversal whose    *)
(* value is not empty.  The names and the values of the properties are     *)
(* drawn from the sets below.                                              *)
(***************************************************************************)

\* "a", "#a", "reg", "a-reg", "function-a", "segment-ranges"
Names ==
    { <<97>>, <<35, 97>>, STR_reg, <<97, 45, 114, 101, 103>>,
      STR_function \o <<97>>, STR_segment_ranges }

\* every value of up to MaxShort bytes of: NUL, a letter, a byte that is not
\* printable (and has bit 7 set)
ShortValues == UNION { [1..n -> {0, 65, 200}] : n \in 1..MaxShort }

\* three runs of those bytes, of lengths around the 8 of a printable run
RunLens == {0, 7, 8, 9}
RunValues ==
    { Rep(a, i) \o Rep(b, j) \o Rep(c, k) :
        a \in {0, 65}, b \in {0, 65, 200}, c \in {0, 200}, i \in RunLens, j \in RunLens, k \in RunLens }
    \ { <<>> }

\* letters, backslashes and double quotes, alone, NUL-terminated, and before
\* a byte that is not printable
EscapeValues ==
    { <<a, b, c>> \o t : a \in {65, 92, 34}, b \in {65, 92, 34}, c \in {65, 92, 34},
                         t \in { <<>>, <<0>>, <<200>> } }

\* struct phys_range records: plausible; plausible at both ceilings; above
\* the address ceiling; not page aligned; above the size ceiling; huge
RangeRecords ==
    { <<0, 16, 0, 0, 0, 0, 0, 0>> \o <<0, 0, 1, 0, 0, 0, 0, 0>>,
      U64_980000000 \o U64_80000000,
      <<0, 16, 0, 128, 9, 0, 0, 0>> \o <<1, 0, 0, 0, 0, 0, 0, 0>>,
      <<1, 16, 0, 0, 0, 0, 0, 0>> \o <<1, 0, 0, 0, 0, 0, 0, 0>>,
      <<0, 16, 0, 0, 0, 0, 0, 0>> \o <<1, 0, 0, 128, 0, 0, 0, 0>>,
      Rep(200, 16) }

RECURSIVE Flatten(_)
Flatten(ss) == IF ss = <<>> THEN <<>> ELSE Head(ss) \o Flatten(Tail(ss))

RangeValues == { Flatten(rs) : rs \in UNION { [1..n -> RangeRecords] : n \in 1..MaxRanges } }

\* 64-bit integers: the least long long, 123456789, the greatest uint64_t
IntValues ==
    { <<0, 0, 0, 0, 0, 0, 0, 128>>, <<21, 205, 91, 7, 0, 0, 0, 0>>, Rep(255, 8) }

\* strings whose quoted text just fits 63 characters, and just does not
LongStrings == { Rep(65, 61) \o <<0>>, Rep(65, 62) \o <<0>>, Rep(65, 62) }

Values ==
    ShortValues \cup RunValues \cup EscapeValues \cup RangeValues \cup IntValues
        \cup LongStrings

Properties == { [name |-> n, value |-> v] : n \in Names, v \in Values }

\* a property printed before the one looked at, to leave its text in the
\* sink: 30 bytes dumped in hexadecimal
Earlier == { [name |-> <<97>>, value |-> Rep(200, 30)] }

\* a table of segment ranges that takes more characters than the capacity
\* the sink starts with, so that the sink has to grow
LongTable ==
    Rep(255, SegmentRangeSize
               * (DefaultCap \div Len(SegmentRangeText(Rep(255, SegmentRangeSize), 0, 2)) + 1))

Growing == { [name |-> STR_segment_ranges, value |-> LongTable] }

InitFmt ==
    /\ tree = [props |-> <<>>, children |-> <<>>]
    /\ buf = <<>>
    /\ pc = "alloc"
    /\ arg = NoArg
    /\ res = NoRes
    /\ todo \in { <<x>> : x \in Properties \cup Growing }
                 \cup { <<e, x>> : e \in Earlier, x \in Properties }
                 \cup { <<g, x>> : g \in Growing, x \in Earlier \cup Growing }
    /\ sink = NoSink
    /\ last = NoLast

\* strbuf_alloc(&sb, print_verbose ? -1 : 64)
StrbufAlloc(verbose) ==
    /\ pc = "alloc"
    /\ sink' = strbuf_alloc(SinkMax(verbose))
    /\ pc' = "print"
    /\ UNCHANGED <<tree, buf, arg, res, todo, last>>

\* the property printed, the display type it was given and its line
LastOf(pr, r) ==
    [name |-> pr.name, value |-> pr.value,
     disp |-> compute_display_type(pr.name, pr.value),
     complete |-> r.complete, text |-> r.text]

\* property_cb on the next property of the traversal
PropertyCb ==
    /\ pc = "print"
    /\ todo # <<>>
    /\ sink' = PrintValue(sink, Head(todo).name, Head(todo).value).sb
    /\ last' = LastOf(Head(todo), PrintValue(sink, Head(todo).name, Head(todo).value))
    /\ todo' = Tail(todo)
    /\ UNCHANGED <<tree, buf, pc, arg, res>>

NextFmt ==
    \/ \E verbose \in BOOLEAN : StrbufAlloc(verbose)
    \/ PropertyCb

SpecFmt == InitFmt /\ [][NextFmt]_vars

----------------------------------------------------------------------------
(* What the tree says a traversal is to see.  The nodes and the properties *)
(* of a tree in depth-first pre-order, each with the offset its encoding   *)
(* puts it at: a node at the offset of its header, a property at the       *)
(* offset of its payload; owner is the offset of the node a property       *)
(* belongs to.                                                             *)
(***************************************************************************)

RECURSIVE Expected(_, _, _), ExpectedProps(_, _, _, _), ExpectedChildren(_, _, _)
ExpectedProps(ps, depth, owner, off) ==
    IF ps = <<>> THEN <<>>
    ELSE << [type |-> "prop", depth |-> depth + 1, at |-> off + PropHeaderSize,
             owner |-> owner, size |-> Len(Head(ps).value)] >>
         \o ExpectedProps(Tail(ps), depth, owner, off + Len(EncodeProperty(Head(ps), TRUE)))
ExpectedChildren(cs, depth, off) ==
    IF cs = <<>> THEN <<>>
    ELSE Expected(Head(cs), depth, off)
         \o ExpectedChildren(Tail(cs), depth, off + Len(EncodeNode(Head(cs))))
Expected(t, depth, off) ==
    << [type |-> "node", depth |-> depth, at |-> off, owner |-> off, size |-> 0] >>
    \o ExpectedProps(t.props, depth, off, off + NodeHeaderSize)
    \o ExpectedChildren(t.children, depth + 1,
           off + NodeHeaderSize + Len(EncodeProps(t.props)))

\* an observer invocation, as far as the tree determines it
Seen(e) ==
    IF e.type = "node" THEN [type |-> "node", depth |-> e.depth, at |-> e.node]
    ELSE [type |-> "prop", depth |-> e.depth, at |-> e.value, size |-> e.size]

Due(x) ==
    IF x.type = "node" THEN [type |-> "node", depth |-> x.depth, at |-> x.at]
    ELSE [type |-> "prop", depth |-> x.depth, at |-> x.at, size |-> x.size]

SeenLog == [i \in 1..Len(res.log) |-> Seen(res.log[i])]
DueLog == LET x == Expected(tree, 0, 0) IN [i \in 1..Len(x) |-> Due(x[i])]

\* the end of the last item of the encoding: of the payload of the final
\* property, or of the last node header
CompleteAt == Len(EncodeNode(tree)) - FinalPadding(tree)

FullTraversal == pc = "iterate" /\ arg.size = Len(buf)

\* C1: on the encoding of a valid tree, devicetree_iterate with observers
\* that never request stop returns true and has consumed exactly the buffer.
C1_FullTraversalConsumesBuffer ==
    FullTraversal => res.ok /\ res.data = Len(buf)

\* a full traversal of a fully padded tree of three nodes, one of them with a
\* property whose payload needs padding
C1_Witness ==
    /\ FullTraversal /\ res.ok /\ res.data = Len(buf)
    /\ buf = EncodeNode(tree)
    /\ Len(SelectSeq(res.log, LAMBDA e : e.type = "node")) = 3
    /\ \E i \in 1..Len(res.log) : res.log[i].type = "prop" /\ res.log[i].size % 4 # 0

\* C2: on a valid buffer cut strictly before the end of a node header or
\* strictly before the unpadded end of the payload of its last property,
\* devicetree_iterate returns false.
C2_TruncatedFails ==
    (pc = "iterate" /\ arg.size < CompleteAt) => ~res.ok

\* a buffer cut one byte before the unpadded end of its final property,
\* after every earlier item was accepted
C2_Witness ==
    /\ pc = "iterate" /\ ~res.ok
    /\ FinalPadding(tree) # 0
    /\ arg.size = CompleteAt - 1
    /\ Len(res.log) = Len(DueLog) - 1

\* the properties of the node at offset node, as a scan of it is to see them
OwnProps(node) ==
    LET own == SelectSeq(Expected(tree, 0, 0),
                   LAMBDA x : x.type = "prop" /\ x.owner = node)
    IN  [i \in 1..Len(own) |->
            [type |-> "prop", depth |-> 1, at |-> own[i].at, size |-> own[i].size]]

\* C3: devicetree_node_scan_properties hands the observer the node's own
\* properties, in order, and no property of a child or deeper descendant,
\* and returns true.
C3_ScanOwnPropertiesOnly ==
    pc = "scan" => res.ok /\ SeenLog = OwnProps(arg.node)

\* a scan of a node that has properties, and a child that has properties
C3_Witness ==
    /\ pc = "scan" /\ res.ok /\ res.log # <<>>
    /\ \E i, j \in 1..Len(DueLog) :
           /\ i < j
           /\ DueLog[i].type = "node" /\ DueLog[i].at = arg.node
           /\ DueLog[j].type = "prop" /\ DueLog[j].depth = DueLog[i].depth + 2

StopRequested == pc = "stop" /\ Len(res.log) = arg.stopAt

\* C4: when an observer sets the stop flag, devicetree_iterate returns true
\* and the offset it has consumed is strictly smaller than the offset a
\* full traversal of the same buffer consumes.
C4_EarlyStopSucceedsShort ==
    StopRequested =>
        /\ res.ok
        /\ res.data < devicetree_iterate(buf, 0, Len(buf), Recording(0), St0).data

\* a stop requested by the observer of the last property of the buffer, in
\* a node below the root
C4_Witness ==
    /\ StopRequested /\ res.ok
    /\ arg.stopAt = Len(DueLog)
    /\ res.log[Len(res.log)].type = "prop"
    /\ res.log[Len(res.log)].depth > 1
    /\ res.data > 0

\* C5: the observers are invoked in the depth-first pre-order of the tree:
\* a node at depth d, its properties in order, then the subtrees of its
\* children in order, their nodes at depth d + 1.
C5_PreOrder ==
    /\ FullTraversal => SeenLog = DueLog
    /\ pc \in {"iterate", "stop"} =>
           /\ Len(SeenLog) <= Len(DueLog)
           /\ SeenLog = SubSeq(DueLog, 1, Len(SeenLog))

\* a full traversal that goes on from the last property of a first child to
\* a second child of the root
C5_Witness ==
    /\ FullTraversal /\ SeenLog = DueLog
    /\ \E i, j \in 1..Len(res.log) :
           /\ i + 1 < j
           /\ res.log[i].type = "node" /\ res.log[i].depth = 1
           /\ res.log[j - 1].type = "prop" /\ res.log[j - 1].depth = 2
           /\ res.log[j].type = "node" /\ res.log[j].depth = 1

\* the name a node's line is to show: the value of the node's own "name"
\* property, or the placeholder of devicetree_print
RECURSIVE NamesDue(_)
NamesDue(t) ==
    LET named == SelectSeq(t.props, LAMBDA pr : pr.name = STR_name)
        own   == IF named = <<>> THEN STR_NODE
                 ELSE LET v == named[Len(named)].value IN SubSeq(v, 1, strnlen(v))
        RECURSIVE Below(_)
        Below(cs) == IF cs = <<>> THEN <<>> ELSE NamesDue(Head(cs)) \o Below(Tail(cs))
    IN  <<own>> \o Below(t.children)

NodeLines == SelectSeq(res.out, LAMBDA l : l.type = "node")

\* C8: the name devicetree_print prints on a node's line is the value of
\* the node's own "name" property, or a placeholder when it has none; it is
\* never the name of a node visited before.
\* It is stated of the trees whose root has a "name" property: in them
\* node_name is assigned before it is first printed.
C8_NodeLineShowsOwnName ==
    (/\ pc = "print" /\ arg.size = Len(buf)
     /\ \E i \in 1..Len(tree.props) : tree.props[i].name = STR_name) =>
        /\ Len(NodeLines) = Len(NamesDue(tree))
        /\ \A k \in 1..Len(NodeLines) : NodeLines[k].text = NamesDue(tree)[k]

----------------------------------------------------------------------------
(* The classifier, as the specification words it *)

Printed == pc = "print" /\ last.disp # ""

IsPrintable(c) == c \in 32..126
PrintableCount(v) == Cardinality({ i \in 1..Len(v) : IsPrintable(v[i]) })
NulCount(v) == Cardinality({ i \in 1..Len(v) : v[i] = 0 })
\* the position of the first NUL, from 0, or the length when there is none
FirstNul(v) ==
    IF NulCount(v) = 0 THEN Len(v)
    ELSE (CHOOSE i \in 1..Len(v) : v[i] = 0 /\ \A j \in 1..(i - 1) : v[j] # 0) - 1
AfterNulCount(v) == Cardinality({ i \in (FirstNul(v) + 2)..Len(v) : v[i] # 0 })
\* the bytes that stand in a run of 8 or more printable bytes
RunSum(v) ==
    Cardinality({ i \in 1..Len(v) :
        \E a \in (i - 7)..i :
            a >= 1 /\ a + 7 <= Len(v) /\ \A k \in a..(a + 7) : IsPrintable(v[k]) })

\* the plausibility check of one (address, size) pair: the address at most
\* 0x980000000 and a multiple of 0x1000, the size at most 0x80000000
Plausible(v, i) ==
    LET address == SubSeq(v, 16 * i + 1, 16 * i + 8)
        length  == SubSeq(v, 16 * i + 9, 16 * i + 16)
    IN  /\ ~UGt(address, U64_980000000)
        /\ address[1] = 0 /\ address[2] % 16 = 0
        /\ ~UGt(length, U64_80000000)

\* the condition of rule k of the decision order
Rule(k, name, v) ==
    LET size == Len(v)
    IN  CASE k = 1 -> size \in {1, 2}
          [] k = 2 -> name # <<>> /\ name[1] = 35
          [] k = 3 -> size > 0 /\ size % 32 = 0 /\ name = STR_segment_ranges
          [] k = 4 -> /\ \A i \in 1..FirstNul(v) : IsPrintable(v[i])
                      /\ AfterNulCount(v) = 0
                      /\ (size \notin {4, 8} \/ PrintableCount(v) >= size - 1)
          [] k = 5 -> /\ IsPrefix(STR_function, name)
                      /\ size >= 8 /\ size % 4 = 0
                      /\ \A i \in 5..8 : IsPrintable(v[i])
          [] k = 6 -> 100 * PrintableCount(v) >= 75 * size
          [] k = 7 -> /\ size > 0 /\ size % 16 = 0
                      /\ \/ Contains(name, STR_reg)
                         \/ \A i \in 0..((size \div 16) - 1) : Plausible(v, i)
          [] k = 8 -> /\ PrintableCount(v) >= 2 /\ size >= 24
                      /\ 100 * (PrintableCount(v) + NulCount(v)) >= 90 * size
          [] k = 9 -> /\ RunSum(v) > 0 /\ size >= 24
                      /\ 10 * (RunSum(v) + NulCount(v)) >= 6 * size
          [] k = 10 -> size \in {4, 8}
          [] OTHER -> TRUE

KindOfRule ==
    << "SmallHexInteger", "DecimalInteger", "SegmentRangeTable", "PrintableString",
       "FunctionDescriptor", "QuotedHexString", "AddressRangeTable", "QuotedHexString",
       "QuotedHexString", "SmallHexInteger", "RawHexDump" >>

RECURSIVE FirstRuleFrom(_, _, _)
FirstRuleFrom(k, name, v) ==
    IF Rule(k, name, v) THEN k ELSE FirstRuleFrom(k + 1, name, v)

\* the lowest-numbered rule whose condition holds
FirstRule(name, v) == FirstRuleFrom(1, name, v)

KindOfDisp(disp) ==
    CASE disp = "DISP_HEX_DUMP"       -> "RawHexDump"
      [] disp = "DISP_HEX_INT"        -> "SmallHexInteger"
      [] disp = "DISP_DEC_INT"        -> "DecimalInteger"
      [] disp = "DISP_STRING"         -> "PrintableString"
      [] disp = "DISP_HEX_STRING"     -> "QuotedHexString"
      [] disp = "DISP_FUNCTION_PROP"  -> "FunctionDescriptor"
      [] disp = "DISP_PHYS_RANGES"    -> "AddressRangeTable"
      [] disp = "DISP_SEGMENT_RANGES" -> "SegmentRangeTable"

\* C6: compute_display_type returns the kind of the lowest-numbered rule of
\* the 11 whose condition holds; a name that begins with '#' with a value
\* of 4 bytes yields DecimalInteger.
C6_FirstMatchWins ==
    Printed =>
        /\ KindOfDisp(last.disp) = KindOfRule[FirstRule(last.name, last.value)]
        /\ (last.name[1] = 35 /\ Len(last.value) = 4) => last.disp = "DISP_DEC_INT"

\* a value of 25 bytes that only rule 9, of the rules before the last two,
\* takes: a run of 8 letters, 8 NULs, 9 bytes that are not printable
C6_Witness ==
    /\ Printed
    /\ FirstRule(last.name, last.value) = 9
    /\ last.disp = "DISP_HEX_STRING"
    /\ last.value = Rep(65, 8) \o Rep(0, 8) \o Rep(200, 9)

----------------------------------------------------------------------------
(* The formatter *)

\* the text of the (address, size) pairs of a value, joined by "; "
RECURSIVE PairsText(_)
PairsText(v) ==
    TXT_0x \o FmtHex(SubSeq(v, 1, 8)) \o TXT_comma \o FmtHex(SubSeq(v, 9, 16))
    \o (IF Len(v) > 16 THEN TXT_semi \o PairsText(SubSeq(v, 17, Len(v))) ELSE <<>>)

\* C7, as claimed: a value of 16 bytes on a property named "reg" is
\* classified AddressRangeTable and rendered as two pairs joined by "; ".
C7_SixteenBytesAreTwoPairs ==
    (Printed /\ last.complete /\ last.name = STR_reg /\ Len(last.value) = 16) =>
        /\ last.disp = "DISP_PHYS_RANGES"
        /\ Contains(last.text, TXT_semi)

\* the rules before rule 7 that can take a value of a property named "reg"
TakenAsText(v) == Rule(4, STR_reg, v) \/ Rule(6, STR_reg, v)

\* C7, amended: a value of 16 bytes on a property named "reg" holds one
\* (address, size) pair of two 64-bit fields and a value of 32 bytes two.
\* Unless the value is a printable string or at least three quarters of it
\* are printable, it is classified AddressRangeTable and rendered as
\* "0x<addr>,<len>", respectively "0x<addr1>,<len1>; 0x<addr2>,<len2>".
C7_RegRangeTable ==
    (/\ Printed /\ last.name = STR_reg
     /\ Len(last.value) \in {16, 32} /\ ~TakenAsText(last.value)) =>
        /\ last.disp = "DISP_PHYS_RANGES"
        /\ last.complete => last.text = PairsText(last.value)
        /\ last.complete =>
               (Contains(last.text, TXT_semi) <=> Len(last.value) = 32)

\* a "reg" of one pair, and no separator in its text
C7_Witness ==
    /\ Printed /\ last.name = STR_reg /\ last.complete
    /\ last.value = <<0, 16, 0, 0, 0, 0, 0, 0>> \o <<0, 0, 1, 0, 0, 0, 0, 0>>
    /\ last.disp = "DISP_PHYS_RANGES"
    /\ last.text = <<48, 120, 49, 48, 48, 48, 44, 49, 48, 48, 48, 48>>

\* the text print_property leaves in a sink that can grow without bound
FullText(name, value) == StrOf(PrintValue(strbuf_alloc(SizeMax), name, value).sb)

\* C9: when the full rendering of a value needs more than max - 1
\* characters, print_property on the sink of maximum max = 64 returns false,
\* and the text in the sink is a prefix, of at most max - 1 characters, of
\* the text the call leaves with an unbounded maximum.
C9_TruncatedIsPrefix ==
    (Printed /\ sink.max = ShortMax) =>
        LET full == FullText(last.name, last.value)
        IN  Len(full) > sink.max - 1 =>
                /\ ~last.complete
                /\ IsPrefix(StrOf(sink), full)
                /\ Len(StrOf(sink)) <= sink.max - 1

\* a quoted string cut after 63 characters, in a sink that held the text
\* of an earlier property
C9_Witness ==
    /\ Printed /\ sink.max = ShortMax /\ ~last.complete
    /\ last.disp = "DISP_HEX_STRING"
    /\ Len(StrOf(sink)) = 63
    /\ Len(FullText(last.name, last.value)) = 65
    /\ last.value = Rep(65, 9) \o Rep(0, 9) \o Rep(200, 9)

\* C10: a value shown as DecimalInteger or SmallHexInteger is read as a
\* little-endian unsigned integer of 1, 2, 4 or 8 bytes; zero is rendered
\* "0", a SmallHexInteger that is not zero "0x<hex>", a DecimalInteger as
\* the decimal numeral of the unsigned value; any other width is rendered
\* as the sentinel "-1".
C10_UnsignedIntegerText ==
    (Printed /\ last.complete /\ last.disp \in {"DISP_HEX_INT", "DISP_DEC_INT"}) =>
        LET value == last.value \o Rep(0, 8 - Len(last.value))
        IN  last.text =
                IF Len(last.value) \notin {1, 2, 4, 8} THEN <<45, 49>>
                ELSE IF UIsZero(value) THEN <<48>>
                ELSE IF last.disp = "DISP_HEX_INT" THEN TXT_0x \o FmtHex(value)
                ELSE FmtUnsigned(value)

----------------------------------------------------------------------------
(* The quoted renderings *)

\* the text a byte of a quoted rendering is to be emitted as
Escaped(c) ==
    IF c = 92 \/ c = 34 THEN <<92, c>>
    ELSE IF c = 0 THEN <<92, 48>>
    ELSE IF IsPrintable(c) THEN <<c>>
    ELSE <<92, 120>> \o Hex02(c)

RECURSIVE EscapedAll(_)
EscapedAll(bytes) ==
    IF bytes = <<>> THEN <<>> ELSE Escaped(Head(bytes)) \o EscapedAll(Tail(bytes))

\* the value of a hexadecimal digit, -1 of what is none
HexValue(d) ==
    IF \E i \in 1..16 : HexDigits[i] = d
    THEN (CHOOSE i \in 1..16 : HexDigits[i] = d) - 1
    ELSE -1

\* the bytes the body of a quoted rendering stands for, read from the left:
\* a backslash with the character after it (two hexadecimal digits more
\* after an x) is one byte, any other character is itself; <<-1>> ends the
\* bytes of a body that cannot be read
RECURSIVE Decoded(_)
Decoded(body) ==
    IF body = <<>> THEN <<>>
    ELSE IF body[1] = 92
    THEN IF Len(body) >= 2 /\ body[2] \in {92, 34}
         THEN <<body[2]>> \o Decoded(SubSeq(body, 3, Len(body)))
         ELSE IF Len(body) >= 2 /\ body[2] = 48
         THEN <<0>> \o Decoded(SubSeq(body, 3, Len(body)))
         ELSE IF /\ Len(body) >= 4 /\ body[2] = 120
                 /\ HexValue(body[3]) >= 0 /\ HexValue(body[4]) >= 0
         THEN <<16 * HexValue(body[3]) + HexValue(body[4])>>
              \o Decoded(SubSeq(body, 5, Len(body)))
         ELSE <<-1>>
    ELSE IF body[1] # 34 /\ IsPrintable(body[1])
    THEN <<body[1]>> \o Decoded(Tail(body))
    ELSE <<-1>>

\* the bytes a quoted rendering renders: of a PrintableString those before
\* the first NUL, of the two others all
Rendered(disp, value) ==
    IF disp = "DISP_STRING" THEN SubSeq(value, 1, FirstNul(value)) ELSE value

Quoted == Printed /\ last.complete
              /\ last.disp \in {"DISP_STRING", "DISP_HEX_STRING", "DISP_FUNCTION_PROP"}

----------------------------------------------------------------------------
(* The tolerance of missing padding *)

\* a property event of a walk to end whose payload ends at end and whose
\* padding would lie beyond it: the walker has accepted it without padding
Eased(e, end) == e.type = "prop" /\ e.value + e.size = end /\ e.size % 4 # 0

EasedAt == { k \in 1..Len(res.log) : Eased(res.log[k], arg.size) }

\* C12: in a walk of a prefix of an encoding, or of an encoding with an
\* observer that stops, a property accepted without its padding is the last
\* event; the walk returns true only if the tree has no property and no
\* child after it, and false if it has.
C12_OnlyFinalPropertyUnpadded ==
    (pc \in {"iterate", "stop"}) =>
        \A k \in EasedAt :
            /\ k = Len(res.log)
            /\ k < Len(DueLog) => ~res.ok
            /\ (pc = "iterate" /\ k = Len(DueLog)) => res.ok

\* a buffer cut at the unpadded end of a property that is not the last of
\* the tree: the property is reported, and the walk fails
C12_Witness ==
    /\ pc = "iterate" /\ EasedAt # {}
    /\ Len(res.log) < Len(DueLog)
    /\ ~res.ok

----------------------------------------------------------------------------
(* The stop flag *)

\* the observers' stopAt-th invocation happens: the tree has that many events
StopSet == pc = "stop" /\ arg.stopAt <= Len(DueLog)

\* C13: once an observer has set the stop flag, no observer is invoked
\* again in that call: the log of the call ends with the invocation that
\* set the flag, and is the full traversal's log up to it, whatever
\* properties, children and later siblings remain at whatever depth.
C13_NoObserverAfterStop ==
    StopSet =>
        /\ Len(res.log) = arg.stopAt
        /\ SeenLog = SubSeq(DueLog, 1, arg.stopAt)

\* a stop set by the observer of a property of a node below the root, with
\* a later sibling of that node still to come
C13_Witness ==
    /\ StopSet /\ Len(res.log) = arg.stopAt
    /\ res.log[arg.stopAt].type = "prop" /\ res.log[arg.stopAt].depth = 2
    /\ \E j \in (arg.stopAt + 1)..Len(DueLog) :
           DueLog[j].type = "node" /\ DueLog[j].depth = 1

----------------------------------------------------------------------------
(* Buffers that are not encodings of trees.  A raw buffer is a sequence of *)
(* up to MaxCells cells put one after the other in any order: node headers *)
(* whose counts may be far larger than any buffer, property headers whose  *)
(* name may lack its NUL and whose size may be far larger than any buffer, *)
(* a word, a single byte.  The walker meets them at whatever offset its    *)
(* cursor has reached, so it reads names as counts and payloads as         *)
(* headers.  The build is 64-bit (Makefile: ARCH ?= x86_64): size_t and    *)
(* the distance of two pointers take any 32-bit count or size without      *)
(* wrapping, and the large counts and sizes here are 2^30.                 *)
(***************************************************************************)

MaxCells == 4

\* 0x40000000
Far == 2^30

NodeCells ==
    { U32LE(c[1]) \o U32LE(c[2]) :
        c \in { <<0, 0>>, <<1, 0>>, <<0, 1>>, <<1, 1>>, <<Far, 0>>, <<0, Far>> } }

\* a property header: the name field, closed by a NUL or not, and the size
PropCell(terminated, word) ==
    (IF terminated THEN <<97>> \o Rep(NUL, NameFieldSize - 1) ELSE Rep(97, NameFieldSize))
        \o word

PropCells ==
    { PropCell(TRUE, U32LE(n)) : n \in {0, 1, Far} } \cup { PropCell(FALSE, U32LE(0)) }

Cells == NodeCells \cup PropCells \cup { <<1, 0, 0, 0>>, <<7>> }

RawBuffers == { Flatten(cs) : cs \in UNION { [1..n -> Cells] : n \in 1..MaxCells } }

\* a stored size with bit 31 set
Flagged(n) == [U32LE(n) EXCEPT ![4] = @ + FlagBit31]

\* one node whose one property has bit 31 of its stored size set, followed
\* by bytes enough, or not enough, for the payload, its padding and a child
FlaggedBuffers ==
    { U32LE(1) \o U32LE(nc) \o PropCell(TRUE, Flagged(n)) \o Rep(NUL, k) :
        nc \in {0, 1}, n \in {1, 4, Far}, k \in {0, 1, 4, 12} }

InitRaw ==
    /\ tree = [props |-> <<>>, children |-> <<>>]
    /\ buf \in RawBuffers \cup FlaggedBuffers
    /\ pc = "idle"
    /\ arg = NoArg
    /\ res = NoRes
    /\ todo = <<>>
    /\ sink = NoSink
    /\ last = NoLast

\* devicetree_iterate on the buffer, with observers that record and never
\* request stop
RawIterate ==
    /\ pc = "idle"
    /\ res' = Walked(devicetree_iterate(buf, 0, Len(buf), Recording(0), St0))
    /\ arg' = [NoArg EXCEPT !.size = Len(buf)]
    /\ pc' = "raw"
    /\ UNCHANGED <<tree, buf, fmtVars>>

NextRaw == RawIterate

SpecRaw == InitRaw /\ [][NextRaw]_vars

----------------------------------------------------------------------------
(* Events of arbitrary buffers *)

\* the stored size at the property header at prop, bit 31 cleared
StoredSizeCleared(prop) ==
    buf[prop + 33] + 256 * buf[prop + 34] + 65536 * buf[prop + 35]
        + 16777216 * (IF buf[prop + 36] >= 128 THEN buf[prop + 36] - 128 ELSE buf[prop + 36])

PropEventInside(e) ==
    /\ 0 <= e.name /\ e.value = e.name + 36
    /\ e.value <= arg.size
    /\ e.value + e.size <= arg.size
    /\ buf[e.name + 32] = 0
    /\ e.size = StoredSizeCleared(e.name)

NodeEventInside(e) ==
    /\ 0 <= e.node /\ e.node + 8 <= arg.size
    /\ e.node + e.size = arg.size

\* C14: whatever the bytes of the buffer, every property event refers to a
\* header and a payload that lie within the buffer, the last byte of its
\* name field is NUL and its size is the stored size with bit 31 cleared;
\* every node event's node offset plus its remaining size is the buffer end.
C14_EventsInsideBuffer ==
    pc = "raw" =>
        \A k \in 1..Len(res.log) :
            IF res.log[k].type = "prop" THEN PropEventInside(res.log[k])
            ELSE NodeEventInside(res.log[k])

\* a walk that fails after it has delivered a property whose stored size
\* has bit 31 set and whose payload ends, without padding, at the buffer end
C14_Witness ==
    /\ pc = "raw" /\ ~res.ok
    /\ \E k \in 1..Len(res.log) :
           /\ res.log[k].type = "prop"
           /\ buf[res.log[k].name + 36] >= 128
           /\ res.log[k].size % 4 # 0
           /\ res.log[k].value + res.log[k].size = arg.size

----------------------------------------------------------------------------
(* Termination and the number of events *)

NodeEvents == SelectSeq(res.log, LAMBDA e : e.type = "node")
PropEvents == SelectSeq(res.log, LAMBDA e : e.type = "prop")

\* the offset of the header an event was delivered for
HeaderOf(e) == IF e.type = "node" THEN e.node ELSE e.name

\* the root's counts, when the buffer holds a node header
RootCounts == IF Len(buf) >= 8 THEN {ReadU32(buf, 0), ReadU32(buf, 4)} ELSE {}

\* C16: on every buffer the call returns, having invoked the node observer
\* at most floor(size/8) times and the property observer at most
\* floor(size/36) times; every invocation is for a header beyond the one
\* before it, and a root whose count is far larger than the buffer makes
\* the call fail.
C16_EventsBoundedBySize ==
    pc = "raw" =>
        /\ Len(NodeEvents) <= arg.size \div 8
        /\ Len(PropEvents) <= arg.size \div 36
        /\ \A k \in 2..Len(res.log) : HeaderOf(res.log[k - 1]) < HeaderOf(res.log[k])
        /\ Far \in RootCounts => ~res.ok
        /\ res.data <= arg.size

\* a root that announces 2^30 children in a buffer that holds three: every
\* 8 bytes of the buffer are a node event, and the call fails
C16_Witness ==
    /\ pc = "raw" /\ ~res.ok
    /\ Len(buf) >= 8 /\ ReadU32(buf, 4) = Far
    /\ Len(NodeEvents) = 4 /\ arg.size = 32

----------------------------------------------------------------------------
(* The assertions of the formatting path *)

\* the size a formatter asserts of the value it is handed
SizeAsserted(disp, size) ==
    CASE disp = "DISP_STRING"         -> size > 0
      [] disp = "DISP_PHYS_RANGES"    -> size % 16 = 0 /\ size > 0
      [] disp = "DISP_SEGMENT_RANGES" -> size > 0 /\ size % 32 = 0
      [] OTHER                        -> TRUE

\* C15: while properties that are not empty are printed one after another
\* into one sink, no assertion of strbuf_vprintf_no_grow, strbuf_printf and
\* the formatters fails: the capacity is at most the maximum, a second
\* attempt after growing fits, a write that does not fit leaves the
\* position at or beyond the capacity, and the value has the size its
\* formatter asserts.
C15_NoAssertionFails ==
    Printed =>
        /\ ~sink.failed
        /\ sink.cap <= sink.max
        /\ ~last.complete => sink.pos >= sink.cap
        /\ last.complete => sink.pos < sink.cap
        /\ SizeAsserted(last.disp, Len(last.value))

\* the unbounded sink has grown beyond the capacity it started with to take
\* a table of segment ranges, and has taken another property after it
C15_Witness ==
    /\ Printed /\ todo = <<>>
    /\ sink.max = SizeMax /\ sink.cap > DefaultCap
    /\ last.complete /\ last.disp = "DISP_HEX_DUMP"

====
